---- MODULE Spec2Model ----
(***************************************************************************)
(* State-machine model of the scroll-synchronisation engine of the image   *)
(* story viewer (the App component and its layered variants).              *)
(*                                                                         *)
(*   variant = "lock"   src/unnamed/part_000: navigation with the          *)
(*                      isNavigating lock, eager reveal, current-panel     *)
(*                      tracking.                                          *)
(*   variant = "gated"  src/src/App.tsx: load-gated reveal with the        *)
(*                      deferred (50 ms) reconciliation of pending panels. *)
(*   variant = "nolock" src/unnamed/part_002: navigation without the lock.    *)
(*   variant = "header" src/unnamed/part_001: the auto-hiding header, the  *)
(*                      frame-coalesced scroll handler and the observer    *)
(*                      that unobserves a revealed panel.                  *)
(*                                                                         *)
(* React and the page that mounts App are outside these files.  What the   *)
(* model takes from React is the contract of function components: a state  *)
(* setter only requests a render; the handlers of one render see that      *)
(* render's state (closures); an updater function runs when its update is  *)
(* processed; the DOM attributes a render changed are written at commit;   *)
(* the effects whose dependencies changed run after the commit and before  *)
(* the next render; the state a key or click handler set is rendered       *)
(* before the next event is handled.  When the other renders and the       *)
(* effects run depends on how App is mounted, which these files do not     *)
(* say, so the model starts in either of React's two root modes:           *)
(*                                                                         *)
(*   root = "legacy"      every state update is rendered before the next   *)
(*                        event; the effects of a commit run later, at the *)
(*                        latest before the next render or click.          *)
(*   root = "concurrent"  the render of a key or click handler's update    *)
(*                        runs its effects with it; the updates of timers, *)
(*                        frames, observers and loads are rendered later,  *)
(*                        and their effects later still.                   *)
(***************************************************************************)
EXTENDS Integers, Sequences, FiniteSets, TLC

VARIABLES
    variant,            \* which App component is mounted
    root,               \* the mode of the React root it is mounted in
    loadedImages,       \* useState<Set<number>>: the state of the last render
    loadQueue,          \* setLoadedImages updaters enqueued and not yet processed
    isNavigating,       \* useState(false): the latest value set
    currentImageIndex,  \* useState(0): the latest value set
    rendered,           \* the state values the last render's handlers closed over
    keyListener,        \* <<>> or <<closure>>: the registered keydown listener
    observer,           \* <<>> or <<closure>>: the live IntersectionObserver
    lenisRef,           \* lenisRef.current is set
    pendingEffects,     \* effects of the last commit that have not run yet
    visible,            \* panels whose element carries the class 'visible'
    pendingVisible,     \* panels whose element carries data-pending-visible
    navs,               \* accepted navigations whose lock release is outstanding
    timers,             \* the 50 ms reconciliation timers, in firing order
    revealedBy,         \* history: what added the 'visible' a panel carries
    lastRequest,        \* history: the outcome of the last scrollToImage call
    mounted,            \* the component has not been torn down
    rafLoop,            \* the Lenis raf loop has a frame callback requested
    scrollListeners,    \* the scroll listeners registered on window
    frameCallbacks,     \* requested frame callbacks of the scroll effect
    ticking,            \* let ticking of the scroll effect
    lastScrollY,        \* let lastScrollY of the scroll effect
    transform,          \* style.transform scale of each panel's image
    pageYOffset,        \* window.pageYOffset
    scrollHeight,       \* document.documentElement.scrollHeight
    scrollProgress,     \* useState(0): the latest value set
    headerVisible,      \* useState(true): the latest value set
    sampled,            \* history: the offset and height of scrollProgress
    computed,           \* history: scale computations run in the last frame
    observed,           \* the targets the live IntersectionObserver observes
    reported,           \* the isIntersecting it last reported of each target
    lastCrossed,        \* history: the panel that last crossed the threshold
    scrolledTo          \* history: the window.scrollTo calls of the last frame

vars == <<variant, root, loadedImages, loadQueue, isNavigating, currentImageIndex,
          rendered, keyListener, observer, lenisRef, pendingEffects, visible,
          pendingVisible, navs, timers, revealedBy, lastRequest, mounted,
          rafLoop, scrollListeners, frameCallbacks, ticking, lastScrollY,
          transform, pageYOffset, scrollHeight, scrollProgress, headerVisible,
          sampled, computed, observed, reported, lastCrossed, scrolledTo>>

\* What the effects set when they run.
mountVars == <<rafLoop, scrollListeners, frameCallbacks, ticking, lastScrollY,
               transform, observed, reported>>

\* What only the scroll events, the frames and the teardown change.
quietVars == <<mounted, pageYOffset, scrollHeight, scrollProgress, headerVisible,
               sampled, computed, lastCrossed, scrolledTo>>

----------------------------------------------------------------------------
(* Bounds of the model.                                                    *)

\* The gallery's length.  The source builds 29 images; the model checks a
\* gallery of NumImages panels.
NumImages == 3
\* setLoadedImages updaters that may wait for a render.
MaxQueue == 1
\* Reconciliation timers (scheduled or about to be) at one time.
MaxTimers == 2
\* Accepted navigations whose release is outstanding at one time.
MaxNavs == 2
\* window.innerHeight, which is also the height of a panel.
innerHeight == 100

----------------------------------------------------------------------------
(* Values.                                                                 *)

\* const images = Array.from({ length: 29 }, (_, i) => i + 1), 0-based.
images == [i \in 0..(NumImages - 1) |-> i + 1]

Panels == DOMAIN images

ImageNumbers == {images[i] : i \in Panels}

\* const duration = 800 (ms) of the fallback animation.
duration == 800

\* Time between two animation frames, as the frame timestamps report it.
FrameDeltas == {duration \div 4, duration \div 2, duration}

Keys == {"ArrowUp", "ArrowLeft", "ArrowDown", "ArrowRight", "Other"}

\* A string of decimal digits, as the sequence of its digits.
RECURSIVE String(_)
String(n) == IF n < 10 THEN <<n>> ELSE Append(String(n \div 10), n % 10)

\* data-index={index} on the story item of panel p.
datasetIndex(p) == String(p)

\* parseInt of a string of decimal digits.
RECURSIVE parseInt(_)
parseInt(s) ==
    IF Len(s) = 1 THEN s[1]
    ELSE parseInt(SubSeq(s, 1, Len(s) - 1)) * 10 + s[Len(s)]

\* Fault: the image number is taken for the index.
imageIndexOf_ImageNumber(target) == images[target]

\* parseInt(target.dataset.index || '0')
imageIndexOf(target) ==
    LET s == datasetIndex(target)
    IN  parseInt(IF s = <<>> THEN <<0>> ELSE s)

\* document.querySelector(`[data-index="${index}"]`) finds an element.
targetElement(index) == \E p \in Panels : datasetIndex(p) = String(index)

\* An IntersectionObserverEntry, as far as the callbacks read it.
Entry == [target : Panels, isIntersecting : BOOLEAN]

\* The entries of one callback.  The observer delivers them one at a time: a
\* callback over several entries leaves the state that the callbacks over each
\* of them, in order, leave.
Entries == {<<e>> : e \in Entry}

----------------------------------------------------------------------------
(* JavaScript numbers.  A finite number is kept as the exact fraction      *)
(* num / den in lowest terms (the rounding of doubles is monotone and      *)
(* keeps a finite result finite at the magnitudes of a page's geometry);   *)
(* NaN and the two infinities are kept as themselves.  An operator binds   *)
(* its operands to x and y before it reads them, so that each operand is   *)
(* computed once.                                                          *)

RECURSIVE gcd(_, _)
gcd(a, b) == IF b = 0 THEN a ELSE gcd(b, a % b)

abs(n) == IF n < 0 THEN -n ELSE n

\* The number n / d, d # 0.
fraction(n, d) ==
    LET g == gcd(abs(n), abs(d))
        sign == IF d < 0 THEN -1 ELSE 1
    IN  [kind |-> "finite", num |-> sign * (n \div g), den |-> sign * (d \div g)]

number(n) == fraction(n, 1)

NaN == [kind |-> "NaN", num |-> 0, den |-> 1]

\* Infinity (sign 1) and -Infinity (sign -1).
infinity(sign) == [kind |-> "Infinity", num |-> sign, den |-> 1]

isNaN(x) == x.kind = "NaN"

isFinite(x) == x.kind = "finite"

\* The sign of a number that is not NaN: -1, 0 or 1.
signOf(x) == IF x.num < 0 THEN -1 ELSE IF x.num > 0 THEN 1 ELSE 0

\* a <= b and a < b, for numbers that are not NaN.
lessOrEqual(a, b) ==
    \E x \in {a}, y \in {b} :
        IF x.kind = "Infinity" THEN x.num < 0 \/ x = y
        ELSE IF y.kind = "Infinity" THEN y.num > 0
        ELSE x.num * y.den <= y.num * x.den

lessThan(a, b) == \E x \in {a}, y \in {b} : x # y /\ lessOrEqual(x, y)

\* a / b
divide(a, b) ==
    CHOOSE quotient \in
        {IF isNaN(x) \/ isNaN(y) THEN NaN
         ELSE IF isFinite(x) /\ isFinite(y)
             THEN IF y.num # 0 THEN fraction(x.num * y.den, x.den * y.num)
                  ELSE IF x.num = 0 THEN NaN
                  ELSE infinity(signOf(x))
         ELSE IF isFinite(x) THEN number(0)
         ELSE IF isFinite(y) THEN infinity(signOf(x) * (IF y.num < 0 THEN -1 ELSE 1))
         ELSE NaN : x \in {a}, y \in {b}} : TRUE

\* a * b
times(a, b) ==
    CHOOSE product \in
        {IF isNaN(x) \/ isNaN(y) THEN NaN
         ELSE IF isFinite(x) /\ isFinite(y)
             THEN fraction(x.num * y.num, x.den * y.den)
         ELSE IF signOf(x) * signOf(y) = 0 THEN NaN
         ELSE infinity(signOf(x) * signOf(y)) : x \in {a}, y \in {b}} : TRUE

\* a + b
plus(a, b) ==
    CHOOSE sum \in
        {IF isNaN(x) \/ isNaN(y) THEN NaN
         ELSE IF isFinite(x) /\ isFinite(y)
             THEN fraction(x.num * y.den + y.num * x.den, x.den * y.den)
         ELSE IF isFinite(x) THEN y
         ELSE IF isFinite(y) \/ x = y THEN x
         ELSE NaN : x \in {a}, y \in {b}} : TRUE

\* -a
negate(a) ==
    CHOOSE negated \in
        {IF isNaN(x) THEN NaN ELSE [x EXCEPT !.num = -x.num] : x \in {a}} : TRUE

\* a - b
minus(a, b) == plus(a, negate(b))

\* Math.abs, Math.min and Math.max.
MathAbs(a) ==
    CHOOSE absolute \in
        {IF isNaN(x) THEN NaN ELSE [x EXCEPT !.num = abs(x.num)] : x \in {a}} : TRUE

MathMin(a, b) ==
    CHOOSE least \in
        {IF isNaN(x) \/ isNaN(y) THEN NaN ELSE IF lessOrEqual(x, y) THEN x ELSE y :
             x \in {a}, y \in {b}} : TRUE

MathMax(a, b) ==
    CHOOSE greatest \in
        {IF isNaN(x) \/ isNaN(y) THEN NaN ELSE IF lessOrEqual(x, y) THEN y ELSE x :
             x \in {a}, y \in {b}} : TRUE

\* a || b, for numbers: 0 and NaN are falsy.
orElse(a, b) ==
    CHOOSE chosen \in
        {IF isNaN(x) \/ (isFinite(x) /\ x.num = 0) THEN y ELSE x :
             x \in {a}, y \in {b}} : TRUE

----------------------------------------------------------------------------
(* Geometry and the proximity scale.                                       *)

\* The scroll offsets the events report: the top, less than the 5 px of the
\* skip threshold below it, and one panel down.
Offsets == {0, 4, innerHeight}

\* The heights of the document: it fits the viewport, or holds every panel.
ScrollHeights == {innerHeight, NumImages * innerHeight}

\* offsetTop of panel p: the panels are stacked, each one viewport high.
offsetTop(p) == p * innerHeight

\* style.transform of an image no computation has written.
unset == [kind |-> "unset", num |-> 0, den |-> 1]

\* distance = Math.abs(viewportCenter - elementCenter) of panel p, where
\* rect.top + scrollY is the panel's offsetTop.
distance(p, scrollY) ==
    LET viewportCenter == plus(divide(number(innerHeight), number(2)), number(scrollY))
        elementCenter == plus(number(offsetTop(p)),
                              divide(number(innerHeight), number(2)))
    IN  MathAbs(minus(viewportCenter, elementCenter))

\* threshold of the observerOptions, in tenths.
threshold == IF variant \in {"gated", "header"} THEN 1 ELSE 5

\* rootMargin of the observerOptions, in px above and below the viewport.
rootMargin ==
    IF variant = "gated" THEN 100
    ELSE IF variant = "header" THEN 50
    ELSE 0

\* The height of panel p inside the viewport, grown by rootMargin, at scrollY.
overlap(p, scrollY) ==
    LET top == IF offsetTop(p) > scrollY - rootMargin
                   THEN offsetTop(p) ELSE scrollY - rootMargin
        bottom == IF offsetTop(p) + innerHeight < scrollY + innerHeight + rootMargin
                      THEN offsetTop(p) + innerHeight
                      ELSE scrollY + innerHeight + rootMargin
    IN  IF bottom > top THEN bottom - top ELSE 0

\* isIntersecting of panel p at scrollY: its ratio has reached the threshold.
isIntersecting(p, scrollY) == overlap(p, scrollY) * 10 >= threshold * innerHeight

\* The isIntersecting the observer has not reported of any target yet.
unreported == [p \in Panels |-> "none"]

\* Fault: the scale is not held at its floor.
scale_NoFloor(dist) ==
    LET maxDistance == number(innerHeight)
    IN  minus(number(1), times(divide(dist, maxDistance), fraction(2, 10)))

\* The scale updateScaling writes for a panel at the given distance:
\* Math.max(0.85, 1 - normalizedDistance * 0.15) over 0.8 of the viewport in
\* the "gated" variant, Math.max(1 - normalizedDistance * 0.2, 0.8) over the
\* whole viewport in the "lock" one.
scale(dist) ==
    IF variant = "gated"
        THEN LET maxDistance == times(number(innerHeight), fraction(8, 10))
                 normalizedDistance == MathMin(divide(dist, maxDistance), number(1))
             IN  MathMax(fraction(85, 100),
                         minus(number(1), times(normalizedDistance, fraction(15, 100))))
        ELSE LET maxDistance == number(innerHeight)
                 normalizedDistance == MathMin(divide(dist, maxDistance), number(1))
             IN  MathMax(minus(number(1), times(normalizedDistance, fraction(2, 10))),
                         fraction(8, 10))

\* One run of updateScaling over s, the lastScrollY, transform and count of
\* computations before it: the "gated" variant skips a change of less than
\* 5 px and scales the '.story-item.visible', the "lock" one every story item
\* (after the teardown the document has no story item).
updateScaling(s) ==
    IF variant = "gated" /\ abs(pageYOffset - s.lastScrollY) < 5
        THEN s
        ELSE [lastScrollY |-> IF variant = "gated" THEN pageYOffset ELSE s.lastScrollY,
              transform |->
                  [p \in Panels |->
                      IF ~mounted \/ (variant = "gated" /\ p \notin visible)
                          THEN s.transform[p]
                          ELSE scale(distance(p, pageYOffset))],
              computed |-> s.computed + 1]

\* The runs of n requested updateScaling callbacks in one frame.
RECURSIVE runCallbacks(_, _)
runCallbacks(n, s) == IF n = 0 THEN s ELSE runCallbacks(n - 1, updateScaling(s))

\* The scroll, Lenis and scaling effects of the mount, when they are among the
\* pending effects: the raf loop is started, the scroll listeners registered,
\* and the scaling effect makes its initial call, through
\* requestAnimationFrame in the "gated" variant and directly in the "lock" one.
\* The observer effect, when it is among them, observes every story item with
\* a new observer, which has reported nothing yet.
flushScrollEffects ==
    /\ observed' = IF "observer" \in pendingEffects THEN Panels ELSE observed
    /\ reported' = IF "observer" \in pendingEffects THEN unreported ELSE reported
    /\ rafLoop' = (rafLoop \/ "lenis" \in pendingEffects)
    /\ scrollListeners' = scrollListeners \cup ({"scroll", "scaling"} \cap pendingEffects)
    /\ ticking' = IF {"scroll", "scaling"} \cap pendingEffects # {} THEN FALSE ELSE ticking
    /\ frameCallbacks' =
           IF "scaling" \in pendingEffects /\ variant = "gated"
               THEN frameCallbacks + 1
               ELSE frameCallbacks
    /\ lastScrollY' =
           IF "scaling" \in pendingEffects /\ variant = "gated" THEN pageYOffset
           ELSE IF "scroll" \in pendingEffects /\ variant = "header" THEN 0
           ELSE lastScrollY
    /\ transform' =
           IF "scaling" \in pendingEffects /\ variant = "lock"
               THEN updateScaling([lastScrollY |-> lastScrollY,
                                   transform |-> transform,
                                   computed |-> 0]).transform
               ELSE transform

----------------------------------------------------------------------------
(* Construction: the first render, before its effects have run.           *)

InitCommon ==
    /\ root \in {"legacy", "concurrent"}
    /\ loadedImages = {}
    /\ loadQueue = <<>>
    /\ isNavigating = FALSE
    /\ currentImageIndex = 0
    /\ rendered = [isNavigating |-> FALSE, currentImageIndex |-> 0]
    /\ keyListener = <<>>
    /\ observer = <<>>
    /\ lenisRef = FALSE
    /\ visible = {}
    /\ pendingVisible = {}
    /\ navs = <<>>
    /\ timers = <<>>
    /\ revealedBy = [p \in Panels |-> "none"]
    /\ lastRequest = "none"
    /\ mounted = TRUE
    /\ rafLoop = FALSE
    /\ scrollListeners = {}
    /\ frameCallbacks = 0
    /\ ticking = FALSE
    /\ lastScrollY = 0
    /\ transform = [p \in Panels |-> unset]
    /\ pageYOffset = 0
    /\ scrollHeight = NumImages * innerHeight
    /\ scrollProgress = number(0)
    /\ headerVisible = TRUE
    /\ sampled = <<>>
    /\ computed = 0
    /\ observed = {}
    /\ reported = unreported
    /\ lastCrossed = 0
    /\ scrolledTo = <<>>

InitLock ==
    /\ variant = "lock"
    /\ pendingEffects = {"lenis", "scroll", "observer", "scaling", "keydown"}
    /\ InitCommon

InitGated ==
    /\ variant = "gated"
    /\ pendingEffects = {"lenis", "scroll", "observer", "scaling"}
    /\ InitCommon

InitNoLock ==
    /\ variant = "nolock"
    /\ pendingEffects = {"lenis", "scroll", "observer", "keydown"}
    /\ InitCommon

InitHeader ==
    /\ variant = "header"
    /\ pendingEffects = {"scroll", "observer"}
    /\ InitCommon

----------------------------------------------------------------------------
(* Effects and the render of a key or click handler's state.               *)

\* The history of 'visible' after `cause` has added it to the panels `added`
\* and a commit has dropped it from the panels `dropped`.
reveal(added, cause, dropped) ==
    [p \in Panels |->
        IF p \in dropped THEN "none"
        ELSE IF p \in added /\ revealedBy[p] = "none" THEN cause
        ELSE revealedBy[p]]

\* A state update waits for its render.
renderPending ==
    \/ loadQueue # <<>>
    \/ rendered # [isNavigating |-> isNavigating,
                   currentImageIndex |-> currentImageIndex]

\* An event can be handled: a legacy root has rendered every update by then.
settled == root = "legacy" => ~renderPending

\* "Make first image visible immediately if loaded" of the observer effect.
firstItemVisible ==
    IF variant = "gated" /\ images[0] \in loadedImages THEN {0} ELSE {}

\* lenisRef.current once the pending effects have run: lenisRef.current = lenis.
flushedLenisRef == lenisRef \/ "lenis" \in pendingEffects

\* The observer once the pending effects have run: a new IntersectionObserver
\* closing over loadedImages replaces the old one.
flushedObserver ==
    IF "observer" \in pendingEffects
        THEN <<[loadedImages |-> loadedImages]>>
        ELSE observer

\* The elements carrying 'visible' once the pending effects have run.
flushedVisible ==
    IF "observer" \in pendingEffects
        THEN visible \cup firstItemVisible
        ELSE visible

\* The keydown listener once the pending effects have run: the handleKeyDown
\* of the last render replaces the old one.
flushedKeyListener ==
    IF "keydown" \in pendingEffects THEN <<rendered>> ELSE keyListener

\* The effects of the last commit run.
FlushEffects ==
    /\ pendingEffects # {}
    /\ lenisRef' = flushedLenisRef
    /\ observer' = flushedObserver
    /\ visible' = flushedVisible
    /\ revealedBy' = reveal(flushedVisible, "effect", {})
    /\ keyListener' = flushedKeyListener
    /\ pendingEffects' = {}
    /\ flushScrollEffects
    /\ UNCHANGED <<quietVars, variant, root, loadedImages, loadQueue, isNavigating,
                   currentImageIndex, rendered, pendingVisible, navs, timers,
                   lastRequest>>

\* The render of the isNavigating a key or click handler has set, before the
\* next event: the effects still pending run first, then the commit's keyboard
\* effect (deps [currentImageIndex, scrollToImage]) runs with it in a
\* concurrent root and is left pending in a legacy one.
commitInput ==
    IF isNavigating' # isNavigating
        THEN /\ rendered' = [rendered EXCEPT !.isNavigating = isNavigating']
             /\ lenisRef' = flushedLenisRef
             /\ observer' = flushedObserver
             /\ visible' = flushedVisible
             /\ revealedBy' = reveal(flushedVisible, "effect", {})
             /\ keyListener' = IF root = "concurrent"
                                   THEN <<rendered'>>
                                   ELSE flushedKeyListener
             /\ pendingEffects' = IF root = "concurrent" THEN {} ELSE {"keydown"}
             /\ flushScrollEffects
        ELSE UNCHANGED <<rendered, lenisRef, observer, visible, revealedBy,
                         keyListener, pendingEffects, mountVars>>

----------------------------------------------------------------------------
(* Navigation (variant "lock").                                            *)

navVars == <<isNavigating, navs, lastRequest>>

\* targetPosition = Math.max(0, centerPosition), where centerPosition =
\* elementTop - windowHeight / 2 + elementHeight / 2.
targetPosition(index) ==
    LET elementTop == number(offsetTop(index))
        elementHeight == number(innerHeight)
        windowHeight == number(innerHeight)
        centerPosition == plus(minus(elementTop, divide(windowHeight, number(2))),
                               divide(elementHeight, number(2)))
    IN  MathMax(number(0), centerPosition)

\* The navigation scrollToImage starts: lenisRef.current.scrollTo with the
\* 1600 ms release timer, or the fallback animateScroll loop (startTime null)
\* from startPosition = window.pageYOffset to targetPosition.
startedNav(index) ==
    IF lenisRef
        THEN [kind |-> "lenis", target |-> index, started |-> TRUE,
              timeElapsed |-> 0]
        ELSE [kind |-> "fallback", target |-> index, started |-> FALSE,
              timeElapsed |-> 0, startPosition |-> number(pageYOffset),
              targetPosition |-> targetPosition(index)]

\* Fault: scrollToImage without the else branch that resets the flag.
scrollToImage_LockLeftSet(closure, index) ==
    IF closure.isNavigating
        THEN /\ lastRequest' = "locked"
             /\ UNCHANGED <<isNavigating, navs>>
        ELSE /\ isNavigating' = TRUE
             /\ navs' = IF targetElement(index)
                            THEN Append(navs, startedNav(index))
                            ELSE navs
             /\ lastRequest' = IF ~targetElement(index) THEN "unresolved"
                                ELSE IF lenisRef THEN "scrollTo"
                                ELSE "animateScroll"

\* scrollToImage(index), called through a handler that closed over `closure`.
scrollToImage(closure, index) ==
    IF closure.isNavigating
        THEN \* if (isNavigating) return;
             /\ lastRequest' = "locked"
             /\ UNCHANGED <<isNavigating, navs>>
        ELSE IF targetElement(index)
            THEN \* setIsNavigating(true), then the scroll is started
                 /\ isNavigating' = TRUE
                 /\ navs' = Append(navs, startedNav(index))
                 /\ lastRequest' = IF lenisRef THEN "scrollTo" ELSE "animateScroll"
            ELSE \* setIsNavigating(true); ... else setIsNavigating(false)
                 /\ isNavigating' = FALSE
                 /\ navs' = navs
                 /\ lastRequest' = "unresolved"

\* goToPreviousImage, and the ArrowUp / ArrowLeft branch of handleKeyDown.
goToPreviousImage(closure) ==
    IF closure.currentImageIndex > 0
        THEN scrollToImage(closure, closure.currentImageIndex - 1)
        ELSE UNCHANGED navVars

\* goToNextImage, and the ArrowDown / ArrowRight branch of handleKeyDown.
goToNextImage(closure) ==
    IF closure.currentImageIndex < NumImages - 1
        THEN scrollToImage(closure, closure.currentImageIndex + 1)
        ELSE UNCHANGED navVars

\* The keydown listener the last keyboard effect registered.
handleKeyDown(key) ==
    /\ variant = "lock"
    /\ settled
    /\ keyListener # <<>>
    /\ Len(navs) < MaxNavs
    /\ IF key \in {"ArrowUp", "ArrowLeft"}
           THEN goToPreviousImage(keyListener[1])
           ELSE IF key \in {"ArrowDown", "ArrowRight"}
               THEN goToNextImage(keyListener[1])
               ELSE UNCHANGED navVars
    /\ commitInput
    /\ UNCHANGED <<quietVars, variant, root, loadedImages, loadQueue, currentImageIndex,
                   pendingVisible, timers>>

\* The buttons' disabled attribute, as the last render wrote it.
disabled(button) ==
    IF button = "up"
        THEN rendered.currentImageIndex = 0 \/ rendered.isNavigating
        ELSE rendered.currentImageIndex = NumImages - 1 \/ rendered.isNavigating

\* onClick of the previous / next button.
onClick(button) ==
    /\ variant = "lock"
    /\ mounted
    /\ settled
    /\ root = "legacy" => pendingEffects = {}
    /\ ~disabled(button)
    /\ Len(navs) < MaxNavs
    /\ IF button = "up"
           THEN goToPreviousImage(rendered)
           ELSE goToNextImage(rendered)
    /\ commitInput
    /\ UNCHANGED <<quietVars, variant, root, loadedImages, loadQueue, currentImageIndex,
                   pendingVisible, timers>>

\* A call of the rendered scrollToImage with an index of the caller's choice.
RequestNavigate(index) ==
    /\ variant = "lock"
    /\ mounted
    /\ settled
    /\ Len(navs) < MaxNavs
    /\ scrollToImage(rendered, index)
    /\ commitInput
    /\ UNCHANGED <<quietVars, variant, root, loadedImages, loadQueue, currentImageIndex,
                   pendingVisible, timers>>

\* scrollToImage(index) of the "nolock" variant: no flag is tested or set, the
\* Lenis scrollTo has no release timer, the fallback starts an animateScroll
\* loop.
scrollToImageNoLock(index) ==
    IF targetElement(index)
        THEN IF lenisRef
            THEN /\ lastRequest' = "scrollTo"
                 /\ UNCHANGED navs
            ELSE /\ lastRequest' = "animateScroll"
                 /\ navs' = Append(navs, startedNav(index))
        ELSE /\ lastRequest' = "unresolved"
             /\ UNCHANGED navs

\* The keydown listener of the "nolock" variant.
handleKeyDownNoLock(key) ==
    /\ variant = "nolock"
    /\ settled
    /\ keyListener # <<>>
    /\ Len(navs) < MaxNavs
    /\ LET currentIndex == keyListener[1].currentImageIndex
       IN  IF key \in {"ArrowUp", "ArrowLeft"} /\ currentIndex > 0
               THEN scrollToImageNoLock(currentIndex - 1)
           ELSE IF key \in {"ArrowDown", "ArrowRight"} /\ currentIndex < NumImages - 1
               THEN scrollToImageNoLock(currentIndex + 1)
           ELSE UNCHANGED <<navs, lastRequest>>
    /\ UNCHANGED <<mountVars, quietVars, variant, root, loadedImages, loadQueue,
                   isNavigating, currentImageIndex, rendered, keyListener,
                   observer, lenisRef, pendingEffects, visible, pendingVisible,
                   timers, revealedBy>>

\* The buttons' disabled attribute in the "nolock" variant.
disabledNoLock(button) ==
    IF button = "up"
        THEN rendered.currentImageIndex = 0
        ELSE rendered.currentImageIndex = NumImages - 1

\* onClick of the previous / next button of the "nolock" variant.
onClickNoLock(button) ==
    /\ variant = "nolock"
    /\ mounted
    /\ settled
    /\ root = "legacy" => pendingEffects = {}
    /\ ~disabledNoLock(button)
    /\ Len(navs) < MaxNavs
    /\ IF button = "up"
           THEN IF rendered.currentImageIndex > 0
                    THEN scrollToImageNoLock(rendered.currentImageIndex - 1)
                    ELSE UNCHANGED <<navs, lastRequest>>
           ELSE IF rendered.currentImageIndex < NumImages - 1
                    THEN scrollToImageNoLock(rendered.currentImageIndex + 1)
                    ELSE UNCHANGED <<navs, lastRequest>>
    /\ UNCHANGED <<mountVars, quietVars, variant, root, loadedImages, loadQueue,
                   isNavigating, currentImageIndex, rendered, keyListener,
                   observer, lenisRef, pendingEffects, visible, pendingVisible,
                   timers, revealedBy>>

\* s without its first element of the given kind.
RECURSIVE RemoveFirst(_, _)
RemoveFirst(s, kind) ==
    IF s = <<>> THEN <<>>
    ELSE IF Head(s).kind = kind THEN Tail(s)
    ELSE <<Head(s)>> \o RemoveFirst(Tail(s), kind)

\* Fault: the release timer fires without resetting the flag.
NavTimeout_NoRelease ==
    /\ variant = "lock"
    /\ settled
    /\ \E k \in 1..Len(navs) : navs[k].kind = "lenis"
    /\ navs' = RemoveFirst(navs, "lenis")
    /\ UNCHANGED <<mountVars, quietVars, variant, root, loadedImages, loadQueue, isNavigating,
                   currentImageIndex, rendered, keyListener, observer, lenisRef,
                   pendingEffects, visible, pendingVisible, timers, revealedBy,
                   lastRequest>>

\* setTimeout(() => setIsNavigating(false), 1600): the oldest timer fires.
NavTimeout ==
    /\ variant = "lock"
    /\ settled
    /\ \E k \in 1..Len(navs) : navs[k].kind = "lenis"
    /\ isNavigating' = FALSE
    /\ navs' = RemoveFirst(navs, "lenis")
    /\ UNCHANGED <<mountVars, quietVars, variant, root, loadedImages, loadQueue, currentImageIndex,
                   rendered, keyListener, observer, lenisRef, pendingEffects,
                   visible, pendingVisible, timers, revealedBy, lastRequest>>

\* One run of animateScroll(currentTime), delta after the previous frame.
animateScroll(a, delta) ==
    IF ~a.started
        THEN \* if (startTime === null) startTime = currentTime
             [a EXCEPT !.started = TRUE, !.timeElapsed = 0]
        ELSE [a EXCEPT !.timeElapsed = a.timeElapsed + delta]

\* progress = Math.min(timeElapsed / duration, 1); progress < 1
progressBelowOne(a) == a.timeElapsed < duration

\* Fault: the curve of its first half is used for the whole animation.
easeInOutCubic_FirstHalf(t) ==
    CHOOSE eased \in {times(number(4), times(x, times(x, x))) : x \in {t}} : TRUE

\* t < 0.5 ? 4 * t * t * t : 1 - Math.pow(-2 * t + 2, 3) / 2
easeInOutCubic(t) ==
    CHOOSE eased \in
        {IF lessThan(x, fraction(1, 2))
             THEN times(number(4), times(x, times(x, x)))
             ELSE LET base == plus(times(number(-2), x), number(2))
                  IN  minus(number(1),
                            divide(times(base, times(base, base)), number(2))) :
             x \in {t}} : TRUE

\* currentPosition of a run of animateScroll that has left the loop as a:
\* startPosition + distance * easedProgress.
currentPosition(a) ==
    LET progress == MathMin(divide(number(a.timeElapsed), number(duration)), number(1))
        easedProgress == easeInOutCubic(progress)
    IN  plus(a.startPosition,
             times(minus(a.targetPosition, a.startPosition), easedProgress))

\* An animation frame: every pending animateScroll callback runs once.  (The
\* loop of the "nolock" variant ends without a setIsNavigating(false); its
\* isNavigating is the false it always is.)
AnimationFrame(delta) ==
    /\ variant \in {"lock", "nolock"}
    /\ settled
    /\ \E k \in 1..Len(navs) : navs[k].kind = "fallback"
    /\ LET step(a) == IF a.kind = "fallback" THEN animateScroll(a, delta) ELSE a
           stepped == [k \in 1..Len(navs) |-> step(navs[k])]
           again(a) == a.kind # "fallback" \/ progressBelowOne(a)
           ran == SelectSeq(stepped, LAMBDA a : a.kind = "fallback")
       IN  /\ navs' = SelectSeq(stepped, again)
           /\ isNavigating' =
                  IF \E k \in 1..Len(stepped) : ~again(stepped[k])
                      THEN FALSE  \* setIsNavigating(false)
                      ELSE isNavigating
           \* window.scrollTo(0, currentPosition)
           /\ scrolledTo' = [k \in 1..Len(ran) |->
                                 [loop |-> ran[k],
                                  position |-> currentPosition(ran[k]),
                                  again |-> again(ran[k])]]
    /\ UNCHANGED <<mountVars, variant, root, loadedImages, loadQueue, currentImageIndex,
                   rendered, keyListener, observer, lenisRef, pendingEffects,
                   visible, pendingVisible, timers, revealedBy, lastRequest,
                   mounted, pageYOffset, scrollHeight, scrollProgress,
                   headerVisible, sampled, computed, lastCrossed>>

----------------------------------------------------------------------------
(* Image loading, reveal and current-panel tracking.                       *)

\* Fault: the updater toggles the image's membership.
newSetOf_Toggle(prev, imageNumber) ==
    IF imageNumber \in prev THEN prev \ {imageNumber} ELSE prev \cup {imageNumber}

\* The updater of handleImageLoad: new Set([...prev, imageNumber]).
newSetOf(prev, imageNumber) == prev \cup {imageNumber}

\* onLoad of an image: handleImageLoad enqueues its updater.
handleImageLoad(imageNumber) ==
    /\ mounted
    /\ settled
    /\ Len(loadQueue) < MaxQueue
    /\ Len(loadQueue) + Len(timers) < MaxTimers
    /\ loadQueue' = Append(loadQueue, imageNumber)
    /\ UNCHANGED <<mountVars, quietVars, variant, root, loadedImages, isNavigating, currentImageIndex,
                   rendered, keyListener, observer, lenisRef, pendingEffects,
                   visible, pendingVisible, navs, timers, revealedBy, lastRequest>>

\* The state after the queued updaters have run in order, starting from prev.
RECURSIVE processQueue(_, _)
processQueue(prev, queue) ==
    IF queue = <<>> THEN prev
    ELSE processQueue(newSetOf(prev, Head(queue)), Tail(queue))

\* The newSet each queued updater hands to its setTimeout, in order.
RECURSIVE scheduledTimers(_, _)
scheduledTimers(prev, queue) ==
    IF queue = <<>> THEN <<>>
    ELSE <<newSetOf(prev, Head(queue))>>
             \o scheduledTimers(newSetOf(prev, Head(queue)), Tail(queue))

\* className of a story item: the constant "story-item" in the "gated"
\* variant, `story-item ${loaded ? '' : 'loading'}` in the others.
className(p, loaded) ==
    IF variant = "gated"
        THEN "story-item"
        ELSE IF images[p] \in loaded THEN "story-item " ELSE "story-item loading"

\* The panels whose class attribute a commit rewrites: the rendered string
\* changed, and writing it drops the classes added through classList.
rewritten(before, after) ==
    {p \in Panels : className(p, before) # className(p, after)}

\* A render and its commit.
Render ==
    /\ mounted
    /\ pendingEffects = {}
    /\ \/ loadQueue # <<>>
       \/ rendered # [isNavigating |-> isNavigating,
                      currentImageIndex |-> currentImageIndex]
    /\ LET after == processQueue(loadedImages, loadQueue)
           closure == [isNavigating |-> isNavigating,
                       currentImageIndex |-> currentImageIndex]
       IN  /\ loadedImages' = after
           /\ rendered' = closure
           /\ visible' = visible \ rewritten(loadedImages, after)
           /\ revealedBy' = reveal({}, "none", rewritten(loadedImages, after))
           /\ timers' = IF variant = "gated"
                            THEN timers \o scheduledTimers(loadedImages, loadQueue)
                            ELSE timers
           /\ pendingEffects' =
                  (IF loadQueue # <<>> THEN {"observer"} ELSE {})
                      \cup (IF closure # rendered THEN {"keydown"} ELSE {})
    /\ loadQueue' = <<>>
    /\ UNCHANGED <<mountVars, quietVars, variant, root, isNavigating, currentImageIndex, keyListener,
                   observer, lenisRef, pendingVisible, navs, lastRequest>>

\* The intersecting targets of a callback's entries.
intersecting(entries) ==
    {entries[k].target : k \in {j \in 1..Len(entries) : entries[j].isIntersecting}}

\* The last setCurrentImageIndex of the callback, or the value before it.
RECURSIVE lastIndex(_, _)
lastIndex(entries, before) ==
    IF entries = <<>> THEN before
    ELSE lastIndex(Tail(entries),
                   IF Head(entries).isIntersecting
                       THEN imageIndexOf(Head(entries).target)
                       ELSE before)

\* The callback of the "lock" and "nolock" variants: classList.add('visible') and
\* setCurrentImageIndex(imageIndex) for every intersecting entry.
observeLock(entries) ==
    /\ visible' = visible \cup intersecting(entries)
    /\ revealedBy' = reveal(intersecting(entries), "observer", {})
    /\ currentImageIndex' = lastIndex(entries, currentImageIndex)
    /\ UNCHANGED pendingVisible

\* Fault: the callback reveals every intersecting entry, loaded or not.
observeGated_Eager(entries) ==
    /\ visible' = visible \cup intersecting(entries)
    /\ revealedBy' = reveal(intersecting(entries), "observer", {})
    /\ UNCHANGED <<pendingVisible, currentImageIndex>>

\* The "gated" variant's callback: an intersecting entry is made visible if the
\* observer's loadedImages has its image, and marked pending otherwise.
observeGated(entries) ==
    LET loaded == observer[1].loadedImages
        shown == {p \in intersecting(entries) : images[imageIndexOf(p)] \in loaded}
    IN  /\ visible' = visible \cup shown
        /\ revealedBy' = reveal(shown, "observer", {})
        /\ pendingVisible' = pendingVisible \cup (intersecting(entries) \ shown)
        /\ UNCHANGED currentImageIndex

\* The IntersectionObserver delivers entries to its callback.
IntersectionCallback(entries) ==
    /\ settled
    /\ observer # <<>>
    /\ IF variant = "gated" THEN observeGated(entries) ELSE observeLock(entries)
    /\ UNCHANGED <<mountVars, quietVars, variant, root, loadedImages, loadQueue, isNavigating, rendered,
                   keyListener, observer, lenisRef, pendingEffects, navs, timers,
                   lastRequest>>

\* The callback of the "header" variant: classList.add('visible') for every
\* intersecting entry (its unobserve is the notification's change of observed).
observeHeader(entries) ==
    /\ visible' = visible \cup intersecting(entries)
    /\ revealedBy' = reveal(intersecting(entries), "observer", {})
    /\ UNCHANGED <<pendingVisible, currentImageIndex>>

\* isIntersecting as the observer records it.
reportOf(p) == IF isIntersecting(p, pageYOffset) THEN "yes" ELSE "no"

\* The entries the observer has to deliver, from target p on in the order of
\* observer.observe(item): one for every observed target whose isIntersecting
\* is not the one last reported, and so one for every target of a new observer.
RECURSIVE entriesFrom(_)
entriesFrom(p) ==
    IF p >= NumImages THEN <<>>
    ELSE (IF p \in observed /\ reported[p] # reportOf(p)
              THEN <<[target |-> p, isIntersecting |-> isIntersecting(p, pageYOffset)]>>
              ELSE <<>>)
             \o entriesFrom(p + 1)

\* The observer notifies its callback of the entries it has to deliver.
ObserverNotification ==
    /\ settled
    /\ observer # <<>>
    /\ entriesFrom(0) # <<>>
    /\ LET entries == entriesFrom(0)
       IN  /\ IF variant = "gated" THEN observeGated(entries)
              ELSE IF variant = "header" THEN observeHeader(entries)
              ELSE observeLock(entries)
           /\ observed' = IF variant = "header"
                              THEN observed \ intersecting(entries)
                              ELSE observed
    /\ reported' = [p \in Panels |-> IF p \in observed THEN reportOf(p) ELSE reported[p]]
    /\ UNCHANGED <<quietVars, variant, root, loadedImages, loadQueue, isNavigating,
                   rendered, keyListener, observer, lenisRef, pendingEffects, navs,
                   timers, lastRequest, rafLoop, scrollListeners, frameCallbacks,
                   ticking, lastScrollY, transform>>

\* Fault: the timer finds no pending item to make visible.
promoted_None(newSet, pending) == {}

\* The pending items the timer of newSet makes visible.
promoted(newSet, pending) ==
    {p \in pending : images[imageIndexOf(p)] \in newSet}

\* The deferred reconciliation: the oldest 50 ms timer fires.
ReconcileTimeout ==
    /\ settled
    /\ timers # <<>>
    /\ visible' = visible \cup promoted(Head(timers), pendingVisible)
    /\ revealedBy' = reveal(promoted(Head(timers), pendingVisible), "timeout", {})
    /\ pendingVisible' = pendingVisible \ promoted(Head(timers), pendingVisible)
    /\ timers' = Tail(timers)
    /\ UNCHANGED <<mountVars, quietVars, variant, root, loadedImages, loadQueue, isNavigating,
                   currentImageIndex, rendered, keyListener, observer, lenisRef,
                   pendingEffects, navs, lastRequest>>

----------------------------------------------------------------------------
(* Scroll progress, the scaling frames, the header and the teardown.  The  *)
(* callbacks of one animation frame are modelled one kind at a time: the   *)
(* Lenis raf, the animateScroll loops, the scroll effect's callbacks.      *)

\* Fault: the progress falls as the offset grows.
progress_Inverted(scrollTop, docHeight) ==
    times(divide(number(docHeight - scrollTop), number(docHeight)), number(100))

\* progress = (scrollTop / docHeight) * 100
progress(scrollTop, docHeight) ==
    times(divide(number(scrollTop), number(docHeight)), number(100))

\* progress = (e.scroll / (e.limit || 1)) * 100
lenisProgress(e) ==
    times(divide(number(e.scroll), orElse(number(e.limit), number(1))), number(100))

\* The 'scroll' events Lenis emits: its scroll and its limit, the scrollable
\* height, which is 0 when the document fits the viewport.
LenisEvents ==
    {e \in [scroll : Offsets, limit : {h - innerHeight : h \in ScrollHeights}] :
        e.scroll <= e.limit}

\* The scroll effect of the variant requests a frame from its scroll listener.
coalescing ==
    IF variant = "header"
        THEN "scroll" \in scrollListeners
        ELSE "scaling" \in scrollListeners

\* The panel that last crossed the threshold once the page has scrolled to
\* scrollTop: the last, in document order, of those whose ratio reaches it
\* there and did not before.
crossedTo(scrollTop) ==
    LET crossed == {p \in Panels : /\ isIntersecting(p, scrollTop)
                                   /\ ~isIntersecting(p, pageYOffset)}
    IN  IF crossed = {}
            THEN lastCrossed
            ELSE CHOOSE p \in crossed : \A q \in crossed : q <= p

\* A native scroll event at scrollTop in a document `height` high: the
\* registered handleScroll listeners run.
ScrollEvent(scrollTop, height) ==
    /\ settled
    /\ scrollTop <= height - innerHeight
    /\ pageYOffset' = scrollTop
    /\ scrollHeight' = height
    /\ lastCrossed' = crossedTo(scrollTop)
    /\ IF "scroll" \in scrollListeners /\ variant # "header" /\ ~lenisRef
           THEN \* if (!lenisRef.current) setScrollProgress(progress)
                /\ scrollProgress' = progress(scrollTop, height - innerHeight)
                /\ sampled' = <<[offset |-> scrollTop, height |-> height - innerHeight]>>
           ELSE UNCHANGED <<scrollProgress, sampled>>
    /\ IF coalescing /\ ~ticking
           THEN \* requestAnimationFrame(...); ticking = true
                /\ frameCallbacks' = frameCallbacks + 1
                /\ ticking' = TRUE
           ELSE UNCHANGED <<frameCallbacks, ticking>>
    /\ UNCHANGED <<variant, root, loadedImages, loadQueue, isNavigating,
                   currentImageIndex, rendered, keyListener, observer, lenisRef,
                   pendingEffects, visible, pendingVisible, navs, timers,
                   revealedBy, lastRequest, mounted, rafLoop, scrollListeners,
                   lastScrollY, transform, headerVisible, computed, observed,
                   reported, scrolledTo>>

\* A frame of the Lenis raf loop: lenis.raf(time) emits a 'scroll' event to the
\* handler of the Lenis effect, and the loop requests its next frame.
LenisFrame(e) ==
    /\ mounted
    /\ rafLoop
    /\ settled
    /\ scrollProgress' = lenisProgress(e)
    /\ sampled' = <<[offset |-> e.scroll, height |-> e.limit]>>
    /\ UNCHANGED <<variant, root, loadedImages, loadQueue, isNavigating,
                   currentImageIndex, rendered, keyListener, observer, lenisRef,
                   pendingEffects, visible, pendingVisible, navs, timers,
                   revealedBy, lastRequest, mounted, rafLoop, scrollListeners,
                   frameCallbacks, ticking, lastScrollY, transform, pageYOffset,
                   scrollHeight, headerVisible, computed, observed, reported,
                   lastCrossed, scrolledTo>>

\* A frame with requested updateScaling callbacks: each runs once.
ScaleFrame ==
    /\ variant \in {"lock", "gated"}
    /\ frameCallbacks > 0
    /\ LET after == runCallbacks(frameCallbacks,
                                 [lastScrollY |-> lastScrollY,
                                  transform |-> transform,
                                  computed |-> 0])
       IN  /\ lastScrollY' = after.lastScrollY
           /\ transform' = after.transform
           /\ computed' = after.computed
    /\ ticking' = FALSE
    /\ frameCallbacks' = 0
    /\ UNCHANGED <<variant, root, loadedImages, loadQueue, isNavigating,
                   currentImageIndex, rendered, keyListener, observer, lenisRef,
                   pendingEffects, visible, pendingVisible, navs, timers,
                   revealedBy, lastRequest, mounted, rafLoop, scrollListeners,
                   pageYOffset, scrollHeight, scrollProgress, headerVisible,
                   sampled, observed, reported, lastCrossed, scrolledTo>>

\* Fault: the header is hidden on any scroll down, the 80 px test left out.
headerAfter_NoThreshold(scrollTop) ==
    IF scrollTop > lastScrollY THEN FALSE
    ELSE IF scrollTop < lastScrollY \/ scrollTop <= 80 THEN TRUE
    ELSE headerVisible

\* The header a frame callback leaves, sampling scrollTop.
headerAfter(scrollTop) ==
    IF scrollTop > lastScrollY /\ scrollTop > 80 THEN FALSE
    ELSE IF scrollTop < lastScrollY \/ scrollTop <= 80 THEN TRUE
    ELSE headerVisible

\* A frame with the requested callback of the "header" variant's handleScroll.
HeaderFrame ==
    /\ variant = "header"
    /\ frameCallbacks > 0
    /\ scrollProgress' = progress(pageYOffset, scrollHeight - innerHeight)
    /\ sampled' = <<[offset |-> pageYOffset, height |-> scrollHeight - innerHeight]>>
    /\ headerVisible' = headerAfter(pageYOffset)
    /\ lastScrollY' = pageYOffset
    /\ ticking' = FALSE
    /\ frameCallbacks' = frameCallbacks - 1
    /\ UNCHANGED <<variant, root, loadedImages, loadQueue, isNavigating,
                   currentImageIndex, rendered, keyListener, observer, lenisRef,
                   pendingEffects, visible, pendingVisible, navs, timers,
                   revealedBy, lastRequest, mounted, rafLoop, scrollListeners,
                   transform, pageYOffset, scrollHeight, computed, observed,
                   reported, lastCrossed, scrolledTo>>

\* The teardown: the cleanup of every effect runs.  lenis.destroy(),
\* removeEventListener of the scroll and keydown listeners and
\* observer.disconnect() are all the cleanups do.
Unmount ==
    /\ mounted
    /\ settled
    /\ pendingEffects = {}
    /\ mounted' = FALSE
    /\ scrollListeners' = {}
    /\ keyListener' = <<>>
    /\ observer' = <<>>
    /\ observed' = {}
    /\ UNCHANGED <<variant, root, loadedImages, loadQueue, isNavigating,
                   currentImageIndex, rendered, lenisRef, pendingEffects, visible,
                   pendingVisible, navs, timers, revealedBy, lastRequest, rafLoop,
                   frameCallbacks, ticking, lastScrollY, transform, pageYOffset,
                   scrollHeight, scrollProgress, headerVisible, sampled, computed,
                   reported, lastCrossed, scrolledTo>>

----------------------------------------------------------------------------
(* Specifications.                                                         *)

\* Navigation: the events of the keyboard, the buttons, the release timer, the
\* animation frames and the intersection observer.
NextNav ==
    \/ \E key \in Keys : handleKeyDown(key)
    \/ \E button \in {"up", "down"} : onClick(button)
    \/ NavTimeout
    \/ \E delta \in FrameDeltas : AnimationFrame(delta)
    \/ \E entries \in Entries : IntersectionCallback(entries)
    \/ Render
    \/ FlushEffects

\* Loading and reveal: the events of the images, the intersection observer and
\* the reconciliation timers.
NextLoad ==
    \/ \E imageNumber \in ImageNumbers : handleImageLoad(imageNumber)
    \/ \E entries \in Entries : IntersectionCallback(entries)
    \/ Render
    \/ FlushEffects
    \/ ReconcileTimeout

\* The "lock" variant under the events its interface produces.
SpecNav == InitLock /\ [][NextNav]_vars

\* The "lock" variant with scrollToImage also called with any index.
NextNavApi ==
    \/ \E index \in -1..NumImages : RequestNavigate(index)
    \/ NavTimeout
    \/ \E delta \in FrameDeltas : AnimationFrame(delta)
    \/ \E entries \in Entries : IntersectionCallback(entries)
    \/ Render
    \/ FlushEffects

SpecNavApi == InitLock /\ [][NextNavApi]_vars

\* The "gated" variant.
SpecGated == InitGated /\ [][NextLoad]_vars

Init == InitLock \/ InitGated

\* Loading and reveal in either variant.
Spec == Init /\ [][NextLoad]_vars

\* A due timer fires and a requested animation frame runs however many other
\* events arrive (in the model an event waits while a legacy root renders, so
\* this fairness is strong); React renders a pending update and runs pending
\* effects.
FairSpecNav ==
    /\ SpecNav
    /\ SF_vars(NavTimeout)
    /\ SF_vars(\E delta \in FrameDeltas : AnimationFrame(delta))
    /\ WF_vars(Render)
    /\ WF_vars(FlushEffects)

\* The "gated" variant where React renders pending updates and runs pending
\* effects, and a due reconciliation timer fires however many other events
\* arrive.
FairSpecGated ==
    /\ SpecGated
    /\ WF_vars(Render)
    /\ WF_vars(FlushEffects)
    /\ SF_vars(ReconcileTimeout)

\* The "nolock" variant under the events its interface produces.
NextNoLock ==
    \/ \E key \in Keys : handleKeyDownNoLock(key)
    \/ \E button \in {"up", "down"} : onClickNoLock(button)
    \/ \E delta \in FrameDeltas : AnimationFrame(delta)
    \/ \E entries \in Entries : IntersectionCallback(entries)
    \/ Render
    \/ FlushEffects

SpecNoLock == InitNoLock /\ [][NextNoLock]_vars

\* The "lock" variant with scrollToImage called with any index from any of
\* the offsets the page is scrolled to.
NextFallback ==
    \/ \E index \in -1..NumImages : RequestNavigate(index)
    \/ \E scrollTop \in Offsets : ScrollEvent(scrollTop, NumImages * innerHeight)
    \/ NavTimeout
    \/ \E delta \in FrameDeltas : AnimationFrame(delta)
    \/ Render
    \/ FlushEffects

SpecFallback == InitLock /\ [][NextFallback]_vars

\* A requested animation frame runs and a due release timer fires however
\* many other events arrive; React renders a pending update and runs pending
\* effects.
FairSpecFallback ==
    /\ SpecFallback
    /\ SF_vars(NavTimeout)
    /\ SF_vars(\E delta \in FrameDeltas : AnimationFrame(delta))
    /\ WF_vars(Render)
    /\ WF_vars(FlushEffects)

\* The offsets the observed page is scrolled to: a panel, and half-way to the
\* next, where both have half their height in the viewport.
TrackOffsets == {0, innerHeight \div 2, innerHeight}

\* The page with a live observer scrolls; the observer has delivered the
\* entries of the scroll before.
TrackedScroll(scrollTop) ==
    /\ observer # <<>>
    /\ entriesFrom(0) = <<>>
    /\ ScrollEvent(scrollTop, NumImages * innerHeight)

\* Observation: the images load, the page scrolls, the observer notifies.
NextObserve ==
    \/ \E imageNumber \in ImageNumbers : handleImageLoad(imageNumber)
    \/ Render
    \/ FlushEffects
    \/ ReconcileTimeout
    \/ \E scrollTop \in TrackOffsets : TrackedScroll(scrollTop)
    \/ ObserverNotification

InitObserve == InitLock \/ InitNoLock \/ InitGated \/ InitHeader

SpecObserve == InitObserve /\ [][NextObserve]_vars

\* Scrolling: the scroll events, the frames and the teardown in each variant.
NextScroll ==
    \/ FlushEffects
    \/ \E scrollTop \in Offsets, height \in ScrollHeights :
           ScrollEvent(scrollTop, height)
    \/ \E e \in LenisEvents : LenisFrame(e)
    \/ ScaleFrame
    \/ HeaderFrame
    \/ Unmount

InitScroll == InitLock \/ InitGated \/ InitHeader

SpecScroll == InitScroll /\ [][NextScroll]_vars

\* The scaling of a page in use: the state after the mount effects and the
\* first frame, in which any of the images are loaded and rendered and any of
\* the panels that may carry 'visible' do.
InitScale ==
    /\ variant \in {"lock", "gated"}
    /\ root \in {"legacy", "concurrent"}
    /\ loadedImages \in SUBSET ImageNumbers
    /\ visible \in SUBSET (IF variant = "gated"
                               THEN {p \in Panels : images[p] \in loadedImages}
                               ELSE Panels)
    /\ revealedBy = [p \in Panels |-> IF p \in visible THEN "observer" ELSE "none"]
    /\ loadQueue = <<>>
    /\ isNavigating = FALSE
    /\ currentImageIndex = 0
    /\ rendered = [isNavigating |-> FALSE, currentImageIndex |-> 0]
    /\ keyListener = IF variant = "lock" THEN <<rendered>> ELSE <<>>
    /\ observer = <<[loadedImages |-> loadedImages]>>
    /\ lenisRef = TRUE
    /\ pendingEffects = {}
    /\ pendingVisible = {}
    /\ navs = <<>>
    /\ timers = <<>>
    /\ lastRequest = "none"
    /\ mounted = TRUE
    /\ rafLoop = TRUE
    /\ scrollListeners = {"scroll", "scaling"}
    /\ frameCallbacks = 0
    /\ ticking = FALSE
    /\ lastScrollY = 0
    /\ pageYOffset = 0
    /\ transform = [p \in Panels |->
                        IF variant = "lock" THEN scale(distance(p, 0)) ELSE unset]
    /\ scrollHeight = NumImages * innerHeight
    /\ scrollProgress = number(0)
    /\ headerVisible = TRUE
    /\ sampled = <<>>
    /\ computed = 0
    /\ observed = Panels
    /\ reported = [p \in Panels |-> IF isIntersecting(p, 0) THEN "yes" ELSE "no"]
    /\ lastCrossed = 0
    /\ scrolledTo = <<>>

NextScale ==
    \/ \E scrollTop \in Offsets, height \in ScrollHeights :
           ScrollEvent(scrollTop, height)
    \/ ScaleFrame

SpecScale == InitScale /\ [][NextScale]_vars

----------------------------------------------------------------------------
(* Claims.                                                                 *)

\* A handler that may call scrollToImage runs.
NavRequest ==
    \/ \E key \in Keys : handleKeyDown(key)
    \/ \E button \in {"up", "down"} : onClick(button)

\* C1: at most one accepted navigation is in flight at any instant: no
\* navigation is started while the release of an earlier one is outstanding.
C1_SingleFlight == Len(navs) <= 1

\* C2: a request made while navigating is true is a no-op: it starts nothing
\* and leaves navigating, currentIndex and the navigation in flight as they are.
C2_LockedRequestIsNoOp ==
    [][(isNavigating /\ NavRequest)
           => UNCHANGED <<isNavigating, currentImageIndex, navs>>]_vars

\* C3: when the only navigation in flight, accepted for index i, completes and
\* navigating returns to false, currentIndex is i.
C3_CompletionSetsCurrentIndex ==
    [][(Len(navs) = 1 /\ navs' = <<>> /\ ~isNavigating')
           => currentImageIndex' = navs[1].target]_vars

\* C4: navigating never stays true forever: whenever it is true it is false
\* again later, and the handlers of a later render see it false.
C4_LockReleased ==
    /\ isNavigating ~> ~isNavigating
    /\ rendered.isNavigating ~> ~rendered.isNavigating

\* C4's case: an accepted navigation has been released on the inertial path.
C4_Witness ==
    /\ lastRequest = "scrollTo"
    /\ navs = <<>>
    /\ ~isNavigating
    /\ ~rendered.isNavigating

\* C5: a request whose panel cannot be resolved starts no navigation, leaves
\* currentIndex alone and does not leave navigating set: after it navigating is
\* true only if it already was, for a navigation still in flight.
C5_UnresolvedRequestRejected ==
    [][\A index \in -1..NumImages :
           (~targetElement(index) /\ RequestNavigate(index))
               => /\ navs' = navs
                  /\ currentImageIndex' = currentImageIndex
                  /\ isNavigating' => (isNavigating /\ navs # <<>>)]_vars

\* C5's case: an unresolvable request made it past the lock and was rejected.
C5_Witness == lastRequest = "unresolved" /\ ~isNavigating /\ navs = <<>>

\* C6: reveal is one-way: a panel that carries 'visible' carries it in every
\* later state.
C6_RevealOneWay == [][\A p \in Panels : p \in visible => p \in visible']_vars

\* The load signal of panel p's image is waiting for its render.
loadSignalled(p) == \E k \in 1..Len(loadQueue) : loadQueue[k] = images[p]

\* C7: a panel that is marked pending when its image's load signal arrives is
\* revealed, and its pending mark cleared, later; the load handler itself
\* reveals nothing and clears no mark, and a pending mark is cleared by the
\* deferred reconciliation only.
C7_DeferredReveal ==
    /\ \A p \in Panels :
           (p \in pendingVisible /\ loadSignalled(p))
               ~> (p \in visible /\ p \notin pendingVisible)
    /\ [][(\E imageNumber \in ImageNumbers : handleImageLoad(imageNumber))
              => UNCHANGED <<visible, pendingVisible>>]_vars
    /\ [][(pendingVisible \ pendingVisible' # {}) => ReconcileTimeout]_vars

\* C7's case: a panel that was marked pending has been revealed by the timer.
C7_Witness ==
    /\ variant = "gated"
    /\ \E p \in Panels :
           /\ revealedBy[p] = "timeout"
           /\ p \in visible
           /\ p \notin pendingVisible

\* C8: in the "gated" variant a panel that carries 'visible' has its image in
\* loadedImages, and a callback for an intersecting panel whose image is not
\* loaded marks it pending without revealing it.
C8_RevealedImpliesLoaded ==
    /\ [](\A p \in visible : images[p] \in loadedImages)
    /\ [][\A entries \in Entries :
              IntersectionCallback(entries)
                  => \A p \in intersecting(entries) :
                         images[p] \notin loadedImages
                             => (p \notin visible' /\ p \in pendingVisible')]_vars

\* C8's case: one panel has crossed the threshold unloaded and is only
\* pending, while another has been revealed by the observer.
C8_Witness ==
    /\ variant = "gated"
    /\ \E p, q \in Panels :
           /\ p \in pendingVisible
           /\ images[p] \notin loadedImages
           /\ p \notin visible
           /\ revealedBy[q] = "observer"

\* The flags of the panels, as a record.
flags == [loaded |-> loadedImages, visible |-> visible, pending |-> pendingVisible]

\* The flags after the load signal of imageNumber has been handled to the end
\* from the flags f: the updater, the commit and the reconciliation timer.
delivered(f, imageNumber) ==
    LET newSet == newSetOf(f.loaded, imageNumber)
        kept == f.visible \ rewritten(f.loaded, newSet)
        shown == IF variant = "gated" THEN promoted(newSet, f.pending) ELSE {}
    IN  [loaded |-> newSet, visible |-> kept \cup shown, pending |-> f.pending \ shown]

\* Every queued load signal is of an image that is already loaded.
duplicatesOnly ==
    /\ loadQueue # <<>>
    /\ \A k \in 1..Len(loadQueue) : loadQueue[k] \in loadedImages

C10_CurrentIndexValid ==
    /\ currentImageIndex \in 0..(NumImages - 1)
    /\ rendered.currentImageIndex \in 0..(NumImages - 1)
    /\ \A k \in 1..Len(keyListener) :
           keyListener[k].currentImageIndex \in 0..(NumImages - 1)

\* C10's case: tracking has moved currentIndex to the last panel, and a
\* navigation from there has been accepted.
C10_Witness ==
    /\ currentImageIndex = NumImages - 1
    /\ rendered.currentImageIndex = NumImages - 1
    /\ lastRequest = "scrollTo"
    /\ navs # <<>>

\* The key or button handler for `step` (-1 previous, +1 next) runs.
stepRequest(step) ==
    \/ \E key \in (IF step < 0 THEN {"ArrowUp", "ArrowLeft"}
                   ELSE {"ArrowDown", "ArrowRight"}) : handleKeyDown(key)
    \/ onClick(IF step < 0 THEN "up" ELSE "down")

\* C11: a key or button request targets the panel next to the current one (the
\* currentIndex of the last render) and nothing outside the gallery: previous
\* starts a navigation to currentIndex - 1 only, next to currentIndex + 1 only,
\* and at the first (last) panel previous (next) starts none.
C11_StepByOne ==
    [][\A step \in {-1, 1} :
           (stepRequest(step) /\ navs' # navs)
               => /\ navs' = Append(navs, navs'[Len(navs')])
                  /\ navs'[Len(navs')].target = rendered.currentImageIndex + step
                  /\ navs'[Len(navs')].target \in 0..(NumImages - 1)]_vars

\* The part of C11 that does not depend on which render the handler is of:
\* every request targets a panel of the gallery.
C11_TargetInRange ==
    \A k \in 1..Len(navs) : navs[k].target \in 0..(NumImages - 1)

\* C12: the scroll progress is a finite number in every reachable state: no
\* path that computes it divides by a scrollable height of 0.
C12_ProgressFinite == isFinite(scrollProgress)


\* C13: in a document higher than the viewport the progress computed at
\* offset 0 is 0, and of two progresses computed one after the other for the
\* same scrollable height the one at the greater offset is not the smaller.
C13_ProgressMonotone ==
    /\ [](\A k \in 1..Len(sampled) :
             (sampled[k].height > 0 /\ sampled[k].offset = 0)
                 => scrollProgress = number(0))
    /\ [][(/\ sampled # <<>>
           /\ sampled' # <<>>
           /\ sampled'[1].height > 0
           /\ sampled[1].height = sampled'[1].height
           /\ sampled[1].offset <= sampled'[1].offset)
              => lessOrEqual(scrollProgress, scrollProgress')]_vars

\* C13's case: a progress above 0 has been computed at an offset above 0 of a
\* scrollable document, in the frame callback of a scroll event.
C13_Witness ==
    /\ variant = "header"
    /\ sampled # <<>>
    /\ sampled[1].height > 0
    /\ sampled[1].offset > 4
    /\ lessThan(number(0), scrollProgress)

\* The floor of the scale and the distance from which it applies, by profile.
scaleFloor == IF variant = "gated" THEN fraction(85, 100) ELSE fraction(8, 10)

scaleReach ==
    IF variant = "gated"
        THEN times(number(innerHeight), fraction(8, 10))
        ELSE number(innerHeight)

\* The panels whose scale the frame that ends in this step has written.
scaledInFrame == IF computed' = 0 THEN {} ELSE IF variant = "gated" THEN visible ELSE Panels

\* C14: every scale applied to a panel is within [floor, 1], and the scale a
\* frame writes is 1 for a panel whose centre is at the viewport's centre and
\* the floor for a panel at maxDistance or further from it.
C14_ScaleWithinRange ==
    /\ [](\A p \in Panels :
             transform[p] # unset
                 => /\ isFinite(transform[p])
                    /\ lessOrEqual(scaleFloor, transform[p])
                    /\ lessOrEqual(transform[p], number(1)))
    /\ [][ScaleFrame
              => \A p \in scaledInFrame :
                     /\ distance(p, pageYOffset) = number(0)
                            => transform'[p] = number(1)
                     /\ lessOrEqual(scaleReach, distance(p, pageYOffset))
                            => transform'[p] = scaleFloor]_vars

\* C14's case: a frame of the "gated" profile has scaled a panel at the
\* centre to 1 and a panel out of reach to the floor.
C14_Witness ==
    /\ variant = "gated"
    /\ computed = 1
    /\ \E p, q \in Panels :
           /\ transform[p] = number(1)
           /\ transform[q] = fraction(85, 100)

\* C15: scale recomputation is coalesced per frame: at most one updateScaling
\* callback is requested at any time, a frame runs at most one scale
\* computation, and a scroll notification itself computes no scale.
C15_ScaleCoalesced ==
    /\ [](variant \in {"lock", "gated"} => (frameCallbacks <= 1 /\ computed <= 1))
    /\ [][(\E scrollTop \in Offsets, height \in ScrollHeights :
               ScrollEvent(scrollTop, height))
              => transform' = transform]_vars

\* C16: after the teardown no work remains scheduled and no listener remains
\* registered: the Lenis raf loop, the animateScroll loops, the release and
\* reconciliation timers and the requested frame callbacks are gone, and so
\* are the scroll listeners, the keydown listener and the observer.
C16_TeardownStopsWork ==
    ~mounted
        => /\ ~rafLoop
           /\ navs = <<>>
           /\ timers = <<>>
           /\ frameCallbacks = 0
           /\ scrollListeners = {}
           /\ keyListener = <<>>
           /\ observer = <<>>

\* The animateScroll loops that have a frame callback requested.
loops == SelectSeq(navs, LAMBDA a : a.kind = "fallback")

\* C17: on the fallback path at most one animateScroll loop has a frame
\* callback requested at any time: a new scroll-to cancels the loop in flight.
C17_OneInterpolation == Len(loops) <= 1

\* C18: with tracking enabled, once the observer has delivered its entries
\* currentImageIndex is the index of the panel that last crossed the 50%
\* threshold; the re-creation of the observer by an image load leaves it so.
C18_CurrentIsLastCrossed ==
    (/\ variant \in {"lock", "nolock"}
     /\ observer # <<>>
     /\ pendingEffects = {}
     /\ entriesFrom(0) = <<>>)
        => currentImageIndex = lastCrossed

\* C20: observation is one-shot: the observer does not observe a panel that
\* carries 'visible', also after an image load has re-created it.
C20_OneShot == observer # <<>> => observed \cap visible = {}

\* C19: a panel is revealed only on an intersection signal that reports it past
\* the threshold: by the callback of that signal, or later while it carries
\* the pending mark such a signal left.  This holds for panel 0 too.
C19_RevealedAfterSignal ==
    [][\A p \in Panels :
           (p \in visible' /\ p \notin visible)
               => \/ revealedBy'[p] = "observer"
                  \/ p \in pendingVisible]_vars

\* C21: the fallback animation ends and settles at its target.  A run of
\* animateScroll requests another frame exactly while its elapsed time is
\* below the duration; every position it writes lies between the start and
\* the target; the position of its last run is the offset that centres the
\* target panel, which for a panel as high as the viewport is its top; and a
\* loop with a frame requested is later without one.
C21_FallbackSettles ==
    /\ [](\A k \in 1..Len(scrolledTo) :
              LET w == scrolledTo[k]
                  from == w.loop.startPosition
                  to == number(offsetTop(w.loop.target))
              IN  /\ w.again <=> w.loop.timeElapsed < duration
                  /\ lessOrEqual(MathMin(from, to), w.position)
                  /\ lessOrEqual(w.position, MathMax(from, to))
                  /\ ~w.again => w.position = to)
    /\ (loops # <<>>) ~> (loops = <<>>)

\* C21's case: a loop that started away from its target has run its last
\* frame, after a frame that wrote a position strictly between the two.
C21_Witness ==
    \E k \in 1..Len(scrolledTo) :
        /\ ~scrolledTo[k].again
        /\ scrolledTo[k].loop.startPosition # scrolledTo[k].loop.targetPosition
        /\ scrolledTo[k].loop.timeElapsed = duration + duration \div 4

\* C22: a stale scale is corrected by the next scroll event: once the frame a
\* scroll notification requested has run, the scale applied to every revealed
\* panel is the scale of its distance at the current offset.
C22_ScaleCorrected ==
    [][ScaleFrame
           => \A p \in visible :
                  transform'[p] = scale(distance(p, pageYOffset))]_vars

\* C23: in the "gated" variant no panel carries both 'visible' and the
\* pending-visible mark, whether the observer's callback or the deferred
\* reconciliation made it visible.
C23_VisibleNotPending ==
    variant = "gated"
        => \A p \in visible :
               revealedBy[p] \in {"observer", "timeout"} => p \notin pendingVisible

\* C24 as stated: after each processed scroll frame of the "header" variant
\* the header is visible if the sampled offset is at most 80, and is hidden
\* only if the offset was above 80 and above the offset processed before; the
\* scroll notifications before a frame request one callback, which processes
\* one sample and updates lastScrollY once.
C24_HeaderAfterFrame ==
    /\ [](variant = "header" => frameCallbacks <= 1)
    /\ [][HeaderFrame
              => /\ pageYOffset <= 80 => headerVisible'
                 /\ ~headerVisible' => (pageYOffset > 80 /\ pageYOffset > lastScrollY)
                 /\ frameCallbacks' = 0
                 /\ lastScrollY' = pageYOffset]_vars

\* C24 as amended: the header is hidden after a frame only if the offset was
\* above 80 and not below the offset processed before; a frame hides a visible
\* header only if the offset was above the one processed before, and a frame
\* at the offset processed before, above 80, leaves the header as it was.
C24_HeaderKeptAtRest ==
    /\ [](variant = "header" => frameCallbacks <= 1)
    /\ [][HeaderFrame
              => /\ pageYOffset <= 80 => headerVisible'
                 /\ ~headerVisible' => (pageYOffset > 80 /\ pageYOffset >= lastScrollY)
                 /\ (headerVisible /\ ~headerVisible') => pageYOffset > lastScrollY
                 /\ (pageYOffset = lastScrollY /\ pageYOffset > 80)
                        => headerVisible' = headerVisible
                 /\ frameCallbacks' = 0
                 /\ lastScrollY' = pageYOffset]_vars

\* C24's case: a frame has sampled an offset above 80 after a scroll down and
\* left the header hidden.
C24_Witness ==
    /\ variant = "header"
    /\ ~headerVisible
    /\ frameCallbacks = 0
    /\ sampled # <<>>
    /\ sampled[1].offset > 80
    /\ lastScrollY = sampled[1].offset

====
